---- MODULE Spec2Model ----
(***************************************************************************)
(* Model of the three scripts under src/addons:                            *)
(*   train_intent_model.py   (the trainer)                                 *)
(*   export_onnx.py          (the exporter)                                *)
(*   predict_intent_onnx.py  (the portable-format predictor)               *)
(* The scripts share only the file system.  Strings whose characters       *)
(* matter (labels, the keys str(i)) are sequences of character codes;      *)
(* file and directory names are atoms.                                     *)
(***************************************************************************)
EXTENDS Integers, Sequences, FiniteSets, TLC

VARIABLES
    fs,                     \* the file system: directory -> [exists, files]
    data,                   \* commands.json: [train, validation], sequences of labels
    HAS_ONNXRUNTIME_QUANT,  \* whether onnxruntime.quantization can be imported
    script,                 \* the script being run by the shell, or "idle"
    pc,                     \* the position in the running script
    err,                    \* the exception that ended the script, or "none"
    labels,                 \* trainer: list(set(...))
    label2id,               \* trainer: label -> id
    id2label,               \* trainer: id -> label (integer keys)
    train_dataset,          \* trainer: the train split (labels, ids once mapped)
    val_dataset,            \* trainer: the validation split
    model,                  \* trainer: the classifier, << >> or <<[num_labels, ...]>>
    args,                   \* exporter: the parsed command line
    hf_model,               \* exporter: the loaded classifier, << >> or <<m>>
    written,                \* exporter: the files written by this run, in order
    printed,                \* exporter: the messages printed by this run, in order
    smoke_dir,              \* exporter: the directories smoke_test read from
    fs0,                    \* the file system when the exporter run started
    last_export,            \* per output directory: the last returned export
    p_id2label,             \* predictor: config.get("id2label", {})
    predicted_idx,          \* predictor: the argmax index, -1 before inference
    predicted_label         \* predictor: the value predict_label returned, << >> or <<s>>

trainerVars  == <<labels, label2id, id2label, train_dataset, val_dataset, model>>
exporterVars == <<args, hf_model, written, printed, smoke_dir, fs0>>
predictVars  == <<p_id2label, predicted_idx, predicted_label>>
vars == <<fs, data, HAS_ONNXRUNTIME_QUANT, script, pc, err, trainerVars,
          exporterVars, last_export, predictVars>>

----------------------------------------------------------------------------
(* Bounds *)

\* Largest number of examples in the train split of the trainer specification.
MaxLen == 2
\* Number of label names of the pool a dataset may use.
NumLabels == 3
\* Largest number of examples in the validation split.
MaxVal == 1
\* Largest number of examples in the train split of the pipeline specification.
PipeLen == 2
\* Largest class count of the graph the predictor specification loads.
MaxClasses == 11

----------------------------------------------------------------------------
(* Strings as sequences of character codes *)

Range(s) == {s[i] : i \in DOMAIN s}

EmptyMap == [k \in {} |-> 0]

\* Label names: "b", "a", "ab", "1", "aa" (in this order in the pool).
LabelPool == << <<98>>, <<97>>, <<97, 98>>, <<49>>, <<97, 97>> >>

LabelNames == {LabelPool[k] : k \in 1..NumLabels}

Min(a, b) == IF a < b THEN a ELSE b

\* Python's < on str: lexicographic by code point, a proper prefix is smaller.
StrLess(s, t) ==
    \/ \E i \in 1..Min(Len(s), Len(t)) :
          /\ \A j \in 1..(i - 1) : s[j] = t[j]
          /\ s[i] < t[i]
    \/ /\ Len(s) < Len(t)
       /\ \A j \in 1..Len(s) : s[j] = t[j]

\* Python's str(i) for i >= 0: the decimal digits, most significant first.
RECURSIVE Str(_)
Str(i) == IF i < 10 THEN <<48 + i>> ELSE Str(i \div 10) \o <<48 + (i % 10)>>

\* Python's int(s) for a string of decimal digits.
RECURSIVE ParseInt(_)
ParseInt(s) ==
    IF Len(s) = 0 THEN 0
    ELSE 10 * ParseInt(SubSeq(s, 1, Len(s) - 1)) + (s[Len(s)] - 48)

\* dict.get(key, default)
DictGet(d, key, default) == IF key \in DOMAIN d THEN d[key] ELSE default

----------------------------------------------------------------------------
(* Trainer: train_intent_model.py *)

\* [ex["label"] for ex in data["train"] + data["validation"]]
AllLabels(d) == d.train \o d.validation

\* list(set(xs)): the distinct elements in the iteration order of the set, which
\* for str depends on the per-process hash seed: any order.
ListKeepsDuplicates(xs) == {xs}
ListOfSet(xs) ==
    {s \in [1..Cardinality(Range(xs)) -> Range(xs)] :
        \A i, j \in DOMAIN s : i # j => s[i] # s[j]}

\* {l: i for i, l in enumerate(labels)}
EnumerateFromOne(ls) == [l \in Range(ls) |-> CHOOSE i \in DOMAIN ls : ls[i] = l]
Enumerate(ls) == [l \in Range(ls) |-> (CHOOSE i \in DOMAIN ls : ls[i] = l) - 1]

\* {i: l for l, i in label2id.items()}
Invert(l2i) ==
    [i \in {l2i[l] : l \in DOMAIN l2i} |-> CHOOSE l \in DOMAIN l2i : l2i[l] = i]

\* map_labels over a split succeeds iff every label is a key of label2id.
MapOk(split, l2i) == \A k \in DOMAIN split : split[k] \in DOMAIN l2i

\* Dataset.map(map_labels): example["label"] = label2id[example["label"]]
MapLabels(split, l2i) == [k \in DOMAIN split |-> l2i[split[k]]]

\* json.dump of a dict with integer keys: the keys become str(i).
JsonKeys(i2l) ==
    [s \in {Str(i) : i \in DOMAIN i2l} |-> i2l[CHOOSE i \in DOMAIN i2l : Str(i) = s]]

\* PretrainedConfig: the keys of id2label read from config.json become int(k).
IntKeys(j) ==
    [i \in {ParseInt(s) : s \in DOMAIN j} |-> j[CHOOSE s \in DOMAIN j : ParseInt(s) = i]]

\* The directory the trainer saves to, the values --model-dir and --onnx-dir
\* take, and the directory the predictor reads.
ModelDir   == "intent_model"
ModelDirs  == {ModelDir, "no_such_model"}
PredictDir == "onnx_model"
OnnxDirs   == {PredictDir, "onnx_alt"}
Paths      == ModelDirs \cup OnnxDirs

NoDir    == [exists |-> FALSE, files |-> EmptyMap]
EmptyDir == [exists |-> TRUE, files |-> EmptyMap]

\* d with file name f holding content c
WriteFile(d, f, c) ==
    [exists |-> TRUE,
     files  |-> [g \in (DOMAIN d.files) \cup {f} |-> IF g = f THEN c ELSE d.files[g]]]

HasFile(d, f) == d.exists /\ f \in DOMAIN d.files

TrainStart ==
    /\ script = "idle"
    /\ script' = "trainer"
    /\ pc' = "vocab"
    /\ err' = "none"
    /\ labels' = << >>
    /\ label2id' = EmptyMap
    /\ id2label' = EmptyMap
    /\ train_dataset' = data.train
    /\ val_dataset' = data.validation
    /\ model' = << >>
    /\ UNCHANGED <<fs, data, HAS_ONNXRUNTIME_QUANT, exporterVars,
                   last_export, predictVars>>

BuildVocab ==
    /\ script = "trainer" /\ pc = "vocab"
    /\ \E ls \in ListOfSet(AllLabels(data)) :
          /\ labels' = ls
          /\ label2id' = Enumerate(ls)
          /\ id2label' = Invert(Enumerate(ls))
    /\ pc' = "map_train"
    /\ UNCHANGED <<fs, data, HAS_ONNXRUNTIME_QUANT, script, err, train_dataset,
                   val_dataset, model, exporterVars, last_export,
                   predictVars>>

MapTrain ==
    /\ script = "trainer" /\ pc = "map_train"
    /\ IF MapOk(train_dataset, label2id)
       THEN /\ train_dataset' = MapLabels(train_dataset, label2id)
            /\ pc' = "map_val"
            /\ err' = err
       ELSE /\ train_dataset' = train_dataset
            /\ pc' = "raised"
            /\ err' = "KeyError"
    /\ UNCHANGED <<fs, data, HAS_ONNXRUNTIME_QUANT, script, labels, label2id,
                   id2label, val_dataset, model, exporterVars,
                   last_export, predictVars>>

MapVal ==
    /\ script = "trainer" /\ pc = "map_val"
    /\ IF MapOk(val_dataset, label2id)
       THEN /\ val_dataset' = MapLabels(val_dataset, label2id)
            /\ pc' = "model"
            /\ err' = err
       ELSE /\ val_dataset' = val_dataset
            /\ pc' = "raised"
            /\ err' = "KeyError"
    /\ UNCHANGED <<fs, data, HAS_ONNXRUNTIME_QUANT, script, labels, label2id,
                   id2label, train_dataset, model, exporterVars,
                   last_export, predictVars>>

\* AutoModelForSequenceClassification.from_pretrained(model_id, num_labels=...,
\* id2label=..., label2id=...)
BuildModel ==
    /\ script = "trainer" /\ pc = "model"
    /\ model' = <<[num_labels |-> Len(labels),
                   id2label   |-> id2label,
                   label2id   |-> label2id]>>
    /\ pc' = "save"
    /\ UNCHANGED <<fs, data, HAS_ONNXRUNTIME_QUANT, script, err, labels, label2id,
                   id2label, train_dataset, val_dataset, exporterVars, last_export, predictVars>>

\* What save_model writes as config.json for classifier m.
ConfigJson(m) ==
    [id2label |-> JsonKeys(m.id2label), label2id |-> m.label2id]

\* The weights trainer.train() leaves: a function of the data and of the ids
\* the labels were mapped to.
Weights(m) == [kind |-> "weights", num_labels |-> m.num_labels, ids |-> m.label2id]

Tokenizer == [kind |-> "tokenizer"]

\* trainer.train(); trainer.save_model("intent_model");
\* tokenizer.save_pretrained("intent_model")
SaveModel ==
    /\ script = "trainer" /\ pc = "save"
    /\ fs' = [fs EXCEPT ![ModelDir] =
                WriteFile(WriteFile(WriteFile(@,
                    "config.json", ConfigJson(model[1])),
                    "model.safetensors", Weights(model[1])),
                    "tokenizer.json", Tokenizer)]
    /\ pc' = "done"
    /\ UNCHANGED <<data, HAS_ONNXRUNTIME_QUANT, script, err, trainerVars,
                   exporterVars, last_export, predictVars>>

\* The trainer process exits; the shell is free to run the next script.
TrainExit ==
    /\ script = "trainer" /\ pc \in {"done", "raised"}
    /\ script' = "idle"
    /\ pc' = "idle"
    /\ err' = "none"
    /\ labels' = << >>
    /\ label2id' = EmptyMap
    /\ id2label' = EmptyMap
    /\ train_dataset' = << >>
    /\ val_dataset' = << >>
    /\ model' = << >>
    /\ UNCHANGED <<fs, data, HAS_ONNXRUNTIME_QUANT, exporterVars, last_export,
                   predictVars>>

TrainerNext ==
    \/ TrainStart
    \/ BuildVocab
    \/ MapTrain
    \/ MapVal
    \/ BuildModel
    \/ SaveModel
    \/ TrainExit

----------------------------------------------------------------------------
(* Exporter: export_onnx.py *)

NoArgs == [model_dir |-> ModelDir, onnx_dir |-> PredictDir,
           no_quant |-> FALSE, smoke_test |-> FALSE]

NoFs == [d \in Paths |-> NoDir]

\* onnx_dir.mkdir(parents=True, exist_ok=True)
ExistOkDefault == FALSE
ExistOk == TRUE

MkdirRaises(d) == d.exists /\ ~ExistOk

MkdirRecreate(d) == EmptyDir
Mkdir(d) == IF d.exists THEN d ELSE EmptyDir

\* AutoModelForSequenceClassification.from_pretrained(model_dir) needs the
\* configuration and the weights.
CanLoad(d) == HasFile(d, "config.json") /\ HasFile(d, "model.safetensors")

\* The classifier loaded from directory d: id2label gets integer keys again.
FromPretrained(d) ==
    [num_labels |-> d.files["model.safetensors"].num_labels,
     id2label   |-> IntKeys(d.files["config.json"].id2label),
     label2id   |-> d.files["config.json"].label2id,
     weights    |-> d.files["model.safetensors"]]

\* The configuration onnx_export_from_model saves next to the graph.
ExportedConfigDefaultNames(m) ==
    [id2label |-> [s \in {Str(i) : i \in DOMAIN m.id2label} |-> <<76>> \o s],
     label2id |-> m.label2id]
ExportedConfig(m) ==
    [id2label |-> JsonKeys(m.id2label), label2id |-> m.label2id]

\* The graph onnx_export_from_model writes: a function of the classifier.
OnnxGraph(m) == [kind |-> "onnx", num_labels |-> m.num_labels, weights |-> m.weights]

\* quantize_dynamic(exported, quantized_path, weight_type=QInt8): a function of
\* the exported graph file.
QuantizeDynamic(g) == [kind |-> "int8", from |-> g]

\* The branch taken at "if quantize: if not HAS_ONNXRUNTIME_QUANT: ...".
QuantBranchNoAvailabilityCheck(quantize, has) ==
    IF ~quantize THEN "return" ELSE "quantize"
QuantBranchIgnoresFlag(quantize, has) ==
    IF ~has THEN "skip" ELSE "quantize"
QuantBranch(quantize, has) ==
    IF ~quantize THEN "return"
    ELSE IF ~has THEN "skip"
    ELSE "quantize"

\* main: parse_args, then export_and_optionally_quantize(args.model_dir,
\* args.onnx_dir, quantize=not args.no_quant); --model-dir is drawn from mds
\* and --onnx-dir from ods, each flag is given or not.
ExportStartWith(mds, ods) ==
    /\ script = "idle"
    /\ script' = "exporter"
    /\ pc' = "mkdir"
    /\ err' = "none"
    /\ \E md \in mds, od \in ods, nq \in BOOLEAN, st \in BOOLEAN :
          args' = [model_dir |-> md, onnx_dir |-> od, no_quant |-> nq,
                   smoke_test |-> st]
    /\ hf_model' = << >>
    /\ written' = << >>
    /\ printed' = << >>
    /\ smoke_dir' = << >>
    /\ fs0' = fs
    /\ UNCHANGED <<fs, data, HAS_ONNXRUNTIME_QUANT, trainerVars, last_export, predictVars>>

\* The exporter run with any directories.
ExportStart == ExportStartWith(ModelDirs, OnnxDirs)

\* The exporter run with the default --model-dir and --onnx-dir.
ExportStartDefault == ExportStartWith({ModelDir}, {PredictDir})

ExportMkdir ==
    /\ script = "exporter" /\ pc = "mkdir"
    /\ IF MkdirRaises(fs[args.onnx_dir])
       THEN /\ pc' = "raised"
            /\ err' = "FileExistsError"
            /\ fs' = fs
       ELSE /\ pc' = "load"
            /\ err' = err
            /\ fs' = [fs EXCEPT ![args.onnx_dir] = Mkdir(@)]
    /\ UNCHANGED <<data, HAS_ONNXRUNTIME_QUANT, script, trainerVars, exporterVars, last_export, predictVars>>

ExportLoad ==
    /\ script = "exporter" /\ pc = "load"
    /\ IF CanLoad(fs[args.model_dir])
       THEN /\ hf_model' = <<FromPretrained(fs[args.model_dir])>>
            /\ pc' = "export"
            /\ err' = err
       ELSE /\ hf_model' = hf_model
            /\ pc' = "raised"
            /\ err' = "LoadError"
    /\ printed' = Append(printed, "loading")
    /\ UNCHANGED <<fs, data, HAS_ONNXRUNTIME_QUANT, script, trainerVars,
                   args, written, smoke_dir, fs0, last_export,
                   predictVars>>

\* onnx_export_from_model(model=hf_model, output=onnx_dir, ...): writes the
\* configuration, the tokenizer files found beside the model, and model.onnx;
\* an incompatible export library makes it raise.
ExportOnnx ==
    /\ script = "exporter" /\ pc = "export"
    /\ \E ok \in BOOLEAN :
          IF ok
          THEN /\ fs' = [fs EXCEPT ![args.onnx_dir] =
                          LET c == WriteFile(@, "config.json", ExportedConfig(hf_model[1]))
                              t == IF HasFile(fs[args.model_dir], "tokenizer.json")
                                   THEN WriteFile(c, "tokenizer.json",
                                            fs[args.model_dir].files["tokenizer.json"])
                                   ELSE c
                          IN  WriteFile(t, "model.onnx", OnnxGraph(hf_model[1]))]
               /\ written' = Append(written,
                                [dir |-> args.onnx_dir, file |-> "model.onnx"])
               /\ printed' = printed \o <<"exporting", "exported">>
               /\ pc' = "quant_check"
               /\ err' = err
          ELSE /\ fs' = fs
               /\ written' = written
               /\ printed' = Append(printed, "exporting")
               /\ pc' = "raised"
               /\ err' = "ExportError"
    /\ UNCHANGED <<data, HAS_ONNXRUNTIME_QUANT, script, trainerVars, args, hf_model, smoke_dir, fs0, last_export, predictVars>>

ExportQuantCheck ==
    /\ script = "exporter" /\ pc = "quant_check"
    /\ LET b == QuantBranch(~args.no_quant, HAS_ONNXRUNTIME_QUANT)
       IN  /\ pc' = IF b = "quantize" THEN "quantize" ELSE "returned"
           /\ printed' = IF b = "skip" THEN Append(printed, "skip_quant")
                         ELSE IF b = "quantize" THEN Append(printed, "quantizing")
                         ELSE printed
    /\ UNCHANGED <<fs, data, HAS_ONNXRUNTIME_QUANT, script, err, trainerVars,
                   args, hf_model, written, smoke_dir, fs0,
                   last_export, predictVars>>

\* quantize_dynamic(str(exported), str(quantized_path), ...); the name is
\* bound only when the import succeeded.
ExportQuantize ==
    /\ script = "exporter" /\ pc = "quantize"
    /\ IF HAS_ONNXRUNTIME_QUANT
       THEN /\ fs' = [fs EXCEPT ![args.onnx_dir] =
                        WriteFile(@, "model.int8.onnx",
                                  QuantizeDynamic(@.files["model.onnx"]))]
            /\ written' = Append(written,
                             [dir |-> args.onnx_dir, file |-> "model.int8.onnx"])
            /\ printed' = Append(printed, "quantized")
            /\ pc' = "returned"
            /\ err' = err
       ELSE /\ fs' = fs
            /\ written' = written
            /\ printed' = printed
            /\ pc' = "raised"
            /\ err' = "NameError"
    /\ UNCHANGED <<data, HAS_ONNXRUNTIME_QUANT, script, trainerVars, args, hf_model, smoke_dir, fs0, last_export, predictVars>>

\* main, after the call returned: "if args.smoke_test:"
ExportReturned ==
    /\ script = "exporter" /\ pc = "returned"
    /\ pc' = IF args.smoke_test THEN "smoke" ELSE "done"
    /\ last_export' = [last_export EXCEPT ![args.onnx_dir] =
                          <<[model_dir |-> args.model_dir,
                             model     |-> hf_model[1],
                             no_quant  |-> args.no_quant,
                             after     |-> fs[args.onnx_dir]]>>]
    /\ UNCHANGED <<fs, data, HAS_ONNXRUNTIME_QUANT, script, err, trainerVars,
                   exporterVars, predictVars>>

\* The directory main passes to smoke_test.
SmokeDirDefault == PredictDir
SmokeDir == args.onnx_dir

\* smoke_test(onnx_dir): loads the tokenizer and the graph from onnx_dir, runs
\* one inference and prints the index.
SmokeTest ==
    /\ script = "exporter" /\ pc = "smoke"
    /\ smoke_dir' = Append(smoke_dir, SmokeDir)
    /\ IF /\ HasFile(fs[SmokeDir], "tokenizer.json")
          /\ HasFile(fs[SmokeDir], "config.json")
          /\ HasFile(fs[SmokeDir], "model.onnx")
       THEN /\ printed' = printed \o <<"smoke_test", "predicted_index">>
            /\ pc' = "done"
            /\ err' = err
       ELSE /\ printed' = Append(printed, "smoke_test")
            /\ pc' = "raised"
            /\ err' = "SmokeError"
    /\ UNCHANGED <<fs, data, HAS_ONNXRUNTIME_QUANT, script, trainerVars,
                   args, hf_model, written, fs0, last_export,
                   predictVars>>

\* The exporter process exits.
ExportExit ==
    /\ script = "exporter" /\ pc \in {"done", "raised"}
    /\ script' = "idle"
    /\ pc' = "idle"
    /\ err' = "none"
    /\ args' = NoArgs
    /\ hf_model' = << >>
    /\ written' = << >>
    /\ printed' = << >>
    /\ smoke_dir' = << >>
    /\ fs0' = NoFs
    /\ UNCHANGED <<fs, data, HAS_ONNXRUNTIME_QUANT, trainerVars, last_export, predictVars>>

ExporterSteps ==
    \/ ExportMkdir
    \/ ExportLoad
    \/ ExportOnnx
    \/ ExportQuantCheck
    \/ ExportQuantize
    \/ ExportReturned
    \/ SmokeTest
    \/ ExportExit

ExporterNext == ExportStart \/ ExporterSteps

----------------------------------------------------------------------------
(* Predictor: predict_intent_onnx.py *)

\* predict_label's last line: id2label.get(str(predicted_idx), str(predicted_idx))
LabelOfUnknown(i2l, idx) == DictGet(i2l, Str(idx), <<117, 110, 107>>)
LabelOf(i2l, idx) == DictGet(i2l, Str(idx), Str(idx))

PredictStart ==
    /\ script = "idle"
    /\ script' = "predictor"
    /\ pc' = "load"
    /\ err' = "none"
    /\ p_id2label' = EmptyMap
    /\ predicted_idx' = -1
    /\ predicted_label' = << >>
    /\ UNCHANGED <<fs, data, HAS_ONNXRUNTIME_QUANT, trainerVars, exporterVars, last_export>>

\* AutoTokenizer.from_pretrained(onnx_path);
\* ORTModelForSequenceClassification.from_pretrained(onnx_path)
PredictLoad ==
    /\ script = "predictor" /\ pc = "load"
    /\ IF /\ HasFile(fs[PredictDir], "tokenizer.json")
          /\ HasFile(fs[PredictDir], "config.json")
          /\ HasFile(fs[PredictDir], "model.onnx")
       THEN pc' = "config" /\ err' = err
       ELSE pc' = "raised" /\ err' = "LoadError"
    /\ UNCHANGED <<fs, data, HAS_ONNXRUNTIME_QUANT, script, trainerVars,
                   exporterVars, last_export, predictVars>>

\* config = json.load(f); id2label = config.get("id2label", {})
PredictConfig ==
    /\ script = "predictor" /\ pc = "config"
    /\ p_id2label' = DictGet(fs[PredictDir].files["config.json"], "id2label", EmptyMap)
    /\ pc' = "predict"
    /\ UNCHANGED <<fs, data, HAS_ONNXRUNTIME_QUANT, script, err, trainerVars,
                   exporterVars, last_export, predicted_idx,
                   predicted_label>>

\* predict_label(text_input): the argmax over the graph's num_labels logits,
\* then the lookup.
PredictLabel ==
    /\ script = "predictor" /\ pc = "predict"
    /\ \E idx \in 0..(fs[PredictDir].files["model.onnx"].num_labels - 1) :
          /\ predicted_idx' = idx
          /\ predicted_label' = <<LabelOf(p_id2label, idx)>>
    /\ pc' = "done"
    /\ UNCHANGED <<fs, data, HAS_ONNXRUNTIME_QUANT, script, err, trainerVars,
                   exporterVars, last_export, p_id2label>>

\* The predictor process exits.
PredictExit ==
    /\ script = "predictor" /\ pc \in {"done", "raised"}
    /\ script' = "idle"
    /\ pc' = "idle"
    /\ err' = "none"
    /\ p_id2label' = EmptyMap
    /\ predicted_idx' = -1
    /\ predicted_label' = << >>
    /\ UNCHANGED <<fs, data, HAS_ONNXRUNTIME_QUANT, trainerVars, exporterVars, last_export>>

PredictorNext ==
    \/ PredictStart
    \/ PredictLoad
    \/ PredictConfig
    \/ PredictLabel
    \/ PredictExit

----------------------------------------------------------------------------
(* Specifications *)

\* Sequences over S of length 0..n
SeqUpTo(S, n) == UNION {[1..k -> S] : k \in 0..n}

InitCommon ==
    /\ HAS_ONNXRUNTIME_QUANT \in BOOLEAN
    /\ script = "idle"
    /\ pc = "idle"
    /\ err = "none"
    /\ labels = << >>
    /\ label2id = EmptyMap
    /\ id2label = EmptyMap
    /\ train_dataset = << >>
    /\ val_dataset = << >>
    /\ model = << >>
    /\ args = NoArgs
    /\ hf_model = << >>
    /\ written = << >>
    /\ printed = << >>
    /\ smoke_dir = << >>
    /\ fs0 = NoFs
    /\ last_export = [d \in OnnxDirs |-> << >>]
    /\ p_id2label = EmptyMap
    /\ predicted_idx = -1
    /\ predicted_label = << >>

InitTrain ==
    /\ data \in [train : SeqUpTo(LabelNames, MaxLen),
                 validation : SeqUpTo(LabelNames, MaxVal)]
    /\ fs = NoFs
    /\ InitCommon

\* The trainer alone, on every dataset within the bounds, run again and again.
SpecTrain == InitTrain /\ [][TrainerNext]_vars

\* The dataset of the exporter specification: the exporter never reads it.
ExportData == [train |-> <<LabelPool[1], LabelPool[2]>>, validation |-> <<LabelPool[2]>>]

\* The trainer and the exporter, run one at a time in any order from an empty
\* file system, the exporter with any command line.
InitExport ==
    /\ data = ExportData
    /\ fs = NoFs
    /\ InitCommon

NextExport == TrainerNext \/ ExporterNext

SpecExport == InitExport /\ [][NextExport]_vars

\* The three scripts, run one at a time in any order from an empty file
\* system, with the default directories (the ones the predictor reads), on a
\* dataset whose validation split is the first training example (the trainer
\* specification covers the other datasets; the exporter and the predictor
\* never read the dataset).
Init ==
    /\ \E tr \in SeqUpTo(LabelNames, PipeLen) \ {<< >>} :
          data = [train |-> tr, validation |-> <<tr[1]>>]
    /\ fs = NoFs
    /\ InitCommon

Next == TrainerNext \/ ExportStartDefault \/ ExporterSteps \/ PredictorNext

Spec == Init /\ [][Next]_vars

\* The keys a config.json found in the predictor's directory may hold:
\* "0", "1", "10" and "01".
KeyPool == {Str(0), Str(1), Str(10), <<48, 49>>}

PartialMaps(K, V) == UNION {[D -> V] : D \in SUBSET K}

\* The predictor alone, on any config.json: with or without an id2label entry,
\* with any keys of the pool, beside a graph of 1..MaxClasses classes.
InitPredict ==
    /\ InitCommon
    /\ data = [train |-> << >>, validation |-> << >>]
    /\ \E cfg \in {[id2label |-> m] : m \in PartialMaps(KeyPool, LabelNames)}
                    \cup {[label2id |-> EmptyMap]},
          n \in 1..MaxClasses :
          fs = [d \in Paths |->
                  IF d = PredictDir
                  THEN WriteFile(WriteFile(WriteFile(EmptyDir,
                          "config.json", cfg),
                          "tokenizer.json", Tokenizer),
                          "model.onnx",
                          [kind |-> "onnx", num_labels |-> n, weights |-> EmptyMap])
                  ELSE NoDir]

SpecPredict == InitPredict /\ [][PredictorNext]_vars

----------------------------------------------------------------------------
(* Properties *)

Wrote(f)   == \E k \in DOMAIN written : written[k].file = f
Printed(m) == m \in Range(printed)

\* The decimal numeral of i, 0 <= i <= 99, written out digit by digit.
Numeral(i) == IF i < 10 THEN <<48 + i>> ELSE <<48 + (i \div 10), 48 + (i % 10)>>

VocabBuilt == script = "trainer" /\ pc # "vocab"

\* C1: in the trainer, map_labels never fails on an example of either split
\* (every label is a key of label2id), every example is mapped to
\* label2id[its label], and every id satisfies 0 <= id < N, N = len(labels)
\* being the num_labels given to the model.
C1_MapLabelsInRange ==
    script = "trainer" =>
        /\ pc # "raised" /\ err # "KeyError"
        /\ VocabBuilt =>
              /\ MapOk(data.train, label2id)
              /\ MapOk(data.validation, label2id)
        /\ pc \in {"map_val", "model", "save", "done"} =>
              /\ Len(train_dataset) = Len(data.train)
              /\ \A k \in DOMAIN train_dataset :
                    /\ train_dataset[k] = label2id[data.train[k]]
                    /\ 0 <= train_dataset[k] /\ train_dataset[k] < Len(labels)
        /\ pc \in {"model", "save", "done"} =>
              /\ Len(val_dataset) = Len(data.validation)
              /\ \A k \in DOMAIN val_dataset :
                    /\ val_dataset[k] = label2id[data.validation[k]]
                    /\ 0 <= val_dataset[k] /\ val_dataset[k] < Len(labels)
        /\ model # << >> =>
              /\ model[1].num_labels = Len(labels)
              /\ \A k \in DOMAIN train_dataset : train_dataset[k] < model[1].num_labels
              /\ \A k \in DOMAIN val_dataset : val_dataset[k] < model[1].num_labels

\* Both splits are mapped, with at least two labels in the vocabulary.
C1_Witness ==
    /\ script = "trainer" /\ pc = "done"
    /\ Len(train_dataset) >= 1 /\ Len(val_dataset) >= 1
    /\ Len(labels) >= 2
    /\ \E k \in DOMAIN train_dataset : train_dataset[k] = Len(labels) - 1

\* C2: the vocabulary is a bijection between the distinct labels of both
\* splits and the ids 0..N-1: id2label[label2id[l]] = l, label2id[id2label[i]]
\* = i, N is the number of distinct labels, and a single distinct label gets
\* a vocabulary of size 1 with id 0.
C2_VocabularyBijection ==
    VocabBuilt =>
        LET N == Len(labels)
            D == Range(AllLabels(data))
        IN  /\ N = Cardinality(D)
            /\ DOMAIN label2id = D
            /\ DOMAIN id2label = 0..(N - 1)
            /\ \A l \in D : id2label[label2id[l]] = l
            /\ \A i \in 0..(N - 1) : label2id[id2label[i]] = i
            /\ Cardinality(D) = 1 => N = 1 /\ \A l \in D : label2id[l] = 0

\* A vocabulary of at least two labels built from splits that repeat a label.
C2_Witness ==
    /\ VocabBuilt
    /\ Len(labels) >= 2
    /\ Len(AllLabels(data)) > Len(labels)

\* C5: the labels are sorted lexicographically before the ids are assigned,
\* so label2id is the same in every run on the same dataset, whatever the
\* iteration order of the set.
C5_VocabularySorted ==
    VocabBuilt =>
        \A i, j \in DOMAIN labels : i < j => StrLess(labels[i], labels[j])

ExporterRuns == script = "exporter"
Returned     == ExporterRuns /\ pc \in {"returned", "smoke", "done"}

\* C3: when quantization is requested and the library is unavailable, the
\* skip happens after model.onnx was exported, the warning is printed, the
\* function returns normally (nothing raises once the export is done) and this
\* run writes no model.int8.onnx.
C3_SkipWhenUnavailable ==
    (ExporterRuns /\ ~args.no_quant /\ ~HAS_ONNXRUNTIME_QUANT) =>
        /\ ~Wrote("model.int8.onnx")
        /\ pc # "quantize" /\ err # "NameError"
        /\ HasFile(fs[args.onnx_dir], "model.int8.onnx")
              <=> HasFile(fs0[args.onnx_dir], "model.int8.onnx")
        /\ Printed("skip_quant") =>
              /\ Wrote("model.onnx")
              /\ HasFile(fs[args.onnx_dir], "model.onnx")
              /\ Returned /\ err = "none"
        /\ Wrote("model.onnx") => pc \in {"quant_check", "returned", "smoke", "done"}
        /\ Returned => Printed("skip_quant")

\* The function has returned after printing the skip warning.
C3_Witness ==
    /\ ExporterRuns /\ ~args.no_quant /\ ~HAS_ONNXRUNTIME_QUANT
    /\ pc = "returned"
    /\ Printed("skip_quant")

\* C7 as stated: in every finished run of the exporter, model.int8.onnx was
\* written iff quantization was requested and the library is available.
C7_EveryRun ==
    (ExporterRuns /\ pc \in {"done", "raised"}) =>
        (Wrote("model.int8.onnx") <=> (~args.no_quant /\ HAS_ONNXRUNTIME_QUANT))

\* C7, amended: in every run in which export_and_optionally_quantize returns
\* normally, model.int8.onnx is written iff quantization was requested and the
\* library is available; in every run it is written only then, strictly after
\* model.onnx and derived from it; with --no-quant quantize_dynamic is never
\* reached.
C7_QuantizedIffRequestedAndAvailable ==
    ExporterRuns =>
        /\ Returned =>
              (Wrote("model.int8.onnx") <=> (~args.no_quant /\ HAS_ONNXRUNTIME_QUANT))
        /\ Wrote("model.int8.onnx") =>
              /\ ~args.no_quant /\ HAS_ONNXRUNTIME_QUANT
              /\ written = <<[dir |-> args.onnx_dir, file |-> "model.onnx"],
                             [dir |-> args.onnx_dir, file |-> "model.int8.onnx"]>>
              /\ fs[args.onnx_dir].files["model.onnx"] = OnnxGraph(hf_model[1])
              /\ fs[args.onnx_dir].files["model.int8.onnx"]
                    = QuantizeDynamic(fs[args.onnx_dir].files["model.onnx"])
        /\ pc = "quantize" => ~args.no_quant /\ Wrote("model.onnx")
        /\ args.no_quant => ~Printed("quantizing") /\ ~Printed("quantized")

\* The function has returned after writing the quantized file.
C7_Witness ==
    /\ ExporterRuns /\ pc = "returned"
    /\ Wrote("model.int8.onnx")

\* C8: the smoke test runs iff --smoke-test is given and the export function
\* returned normally; it runs after the export and after the quantization or
\* its skip, and reads the directory the export wrote to.
C8_SmokeTestIffFlagAndReturned ==
    ExporterRuns =>
        /\ (pc = "smoke" \/ smoke_dir # << >>) =>
              /\ args.smoke_test
              /\ Wrote("model.onnx")
              /\ ~args.no_quant => Wrote("model.int8.onnx") \/ Printed("skip_quant")
        /\ smoke_dir # << >> =>
              /\ Len(smoke_dir) = 1
              /\ smoke_dir[1] = args.onnx_dir
              /\ \A k \in DOMAIN written : written[k].dir = smoke_dir[1]
        /\ pc = "done" => (smoke_dir # << >> <=> args.smoke_test)
        /\ pc \in {"mkdir", "load", "export", "quant_check", "quantize", "returned"}
              => smoke_dir = << >>
        /\ err \in {"FileExistsError", "LoadError", "ExportError", "NameError"}
              => smoke_dir = << >>

\* The smoke test has run on the other output directory after a skipped
\* quantization.
C8_Witness ==
    /\ ExporterRuns /\ pc = "done"
    /\ smoke_dir = <<"onnx_alt">>
    /\ Printed("skip_quant")

\* The previous returned export into this run's output directory had the same
\* model directory (path and contents) and the same quantize flag.
SameExportAgain ==
    /\ last_export[args.onnx_dir] # << >>
    /\ last_export[args.onnx_dir][1].model_dir = args.model_dir
    /\ last_export[args.onnx_dir][1].model = hf_model[1]
    /\ last_export[args.onnx_dir][1].no_quant = args.no_quant

\* C9: a second export with the same model directory, output directory and
\* quantize flag does not fail because the output directory exists, and leaves
\* the output directory with the same files and contents as the first.
C9_ExportIdempotent ==
    ExporterRuns =>
        /\ err # "FileExistsError"
        /\ (pc = "returned" /\ SameExportAgain) =>
              fs[args.onnx_dir] = last_export[args.onnx_dir][1].after

\* A second quantizing export has returned.
C9_Witness ==
    /\ ExporterRuns /\ pc = "returned"
    /\ SameExportAgain
    /\ ~args.no_quant
    /\ Wrote("model.int8.onnx")

\* C10: when loading the classifier fails, the exporter ends with that error,
\* has written no graph file, runs no smoke test, and has at most created the
\* output directory (before the load).
C10_LoadFailureWritesNothing ==
    ExporterRuns =>
        /\ (pc \notin {"mkdir", "load"} /\ ~CanLoad(fs[args.model_dir]))
              => err = "LoadError"
        /\ err = "LoadError" =>
              /\ pc = "raised"
              /\ written = << >>
              /\ smoke_dir = << >>
              /\ fs[args.onnx_dir].exists
              /\ fs = [fs0 EXCEPT ![args.onnx_dir] =
                         IF @.exists THEN @ ELSE EmptyDir]

\* The load failed in an output directory that holds an earlier export.
C10_Witness ==
    /\ ExporterRuns /\ err = "LoadError"
    /\ HasFile(fs0[args.onnx_dir], "model.onnx")

\* C6: the vocabulary reaches the predictor unchanged: save_model persists
\* id2label under the keys str(i), the exported directory's config.json maps
\* str(i) to the label the trainer of the exported weights assigned to i, for
\* every i in 0..N-1, also after quantization, and the predictor returns that
\* label for the index it predicts.
C6_VocabularyCarried ==
    /\ \A n \in 0..MaxClasses : ParseInt(Numeral(n)) = n /\ Str(n) = Numeral(n)
    /\ (script = "trainer" /\ pc = "done") =>
          LET c == fs[ModelDir].files["config.json"]
              w == fs[ModelDir].files["model.safetensors"]
          IN  /\ w.ids = label2id
              /\ w.num_labels = Len(labels)
              /\ DOMAIN c.id2label = {Numeral(i) : i \in DOMAIN id2label}
              /\ \A i \in DOMAIN id2label : c.id2label[Numeral(i)] = id2label[i]
    /\ HasFile(fs[PredictDir], "model.onnx") =>
          LET c == fs[PredictDir].files["config.json"]
              g == fs[PredictDir].files["model.onnx"]
          IN  /\ DOMAIN c.id2label = {Numeral(i) : i \in 0..(g.num_labels - 1)}
              /\ \A i \in 0..(g.num_labels - 1) :
                    /\ c.id2label[Numeral(i)] \in DOMAIN g.weights.ids
                    /\ g.weights.ids[c.id2label[Numeral(i)]] = i
    /\ (script = "predictor" /\ pc \in {"predict", "done"}) =>
          LET g == fs[PredictDir].files["model.onnx"]
          IN  \A i \in 0..(g.num_labels - 1) :
                 /\ Numeral(i) \in DOMAIN p_id2label
                 /\ p_id2label[Numeral(i)] \in DOMAIN g.weights.ids
                 /\ g.weights.ids[p_id2label[Numeral(i)]] = i
    /\ (script = "predictor" /\ pc = "done") =>
          LET g == fs[PredictDir].files["model.onnx"]
          IN  /\ predicted_label[1] \in DOMAIN g.weights.ids
              /\ g.weights.ids[predicted_label[1]] = predicted_idx

\* The predictor has returned the label of id 1 from a directory that was
\* also quantized.
C6_Witness ==
    /\ script = "predictor" /\ pc = "done"
    /\ predicted_idx = 1
    /\ HasFile(fs[PredictDir], "model.int8.onnx")

\* C4: predict_label never raises on a lookup miss: it returns
\* id2label[str(i)] when str(i) is a key of the id2label of config.json, and
\* str(i) otherwise, also when config.json has no id2label entry.
C4_LookupFallback ==
    script = "predictor" =>
        /\ pc # "raised" /\ err = "none"
        /\ pc = "done" =>
              LET c == fs[PredictDir].files["config.json"]
                  m == IF "id2label" \in DOMAIN c THEN c.id2label ELSE EmptyMap
                  k == Numeral(predicted_idx)
              IN  predicted_label = <<IF k \in DOMAIN m THEN m[k] ELSE k>>

\* The lookup missed on a two-digit index while other keys are present.
C4_Witness ==
    /\ script = "predictor" /\ pc = "done"
    /\ predicted_idx = 10
    /\ p_id2label # EmptyMap
    /\ predicted_label = << <<49, 48>> >>

====
